---- MODULE Spec2Model ----
(***************************************************************************)
(* Token lifecycle of ytmusicapi/auth/oauth.py (class YTMusicOAuth).       *)
(*                                                                         *)
(* The model follows the coroutines of the class between their suspension  *)
(* points.  A coroutine runs without interleaving from one `await` to the  *)
(* next; the wall clock (time.time()) advances between such steps.         *)
(* time.time() is a float: the clock is counted in ticks of 1/Res second,  *)
(* so that int(time.time()) is clock \div Res and a comparison of          *)
(* time.time() with an integer number of seconds is a comparison of the    *)
(* clock with that number times Res.                                       *)
(***************************************************************************)
EXTENDS Integers, FiniteSets, Sequences, TLC

(***************************************************************************)
(* Bounds of the model.                                                    *)
(***************************************************************************)
Res == 2            \* clock ticks per second
MaxTicks == 3       \* ticks the clock may advance during a run
NumCalls == 2       \* load_headers invocations sharing the token dict
Calls == 1..NumCalls
StartTime == 1000 * Res
MaxClock == StartTime + MaxTicks

(***************************************************************************)
(* Program constants.                                                      *)
(***************************************************************************)
SKEW_WINDOW == 3600                 \* load_headers: expires_at - 3600
MaxPathLen == 255                   \* dump_token: len(filepath) > 255
OAUTH_CLIENT_ID == "OAUTH_CLIENT_ID"
OAUTH_CLIENT_SECRET == "OAUTH_CLIENT_SECRET"
OAUTH_CODE_URL == "OAUTH_CODE_URL"
OAUTH_TOKEN_URL == "OAUTH_TOKEN_URL"
OAUTH_SCOPE == "OAUTH_SCOPE"
OAUTH_USER_AGENT == "OAUTH_USER_AGENT"
GRANT_DEVICE == "http://oauth.net/grant_type/device/1.0"
GRANT_REFRESH == "refresh_token"

(***************************************************************************)
(* Python values.  A dict with the token keys is a record whose absent     *)
(* keys hold NoStr / NoInt.                                                *)
(***************************************************************************)
NoStr == "<absent>"
NoInt == 0 - 1
NoDict ==
  [access_token |-> NoStr, refresh_token |-> NoStr, token_type |-> NoStr,
   expires_in |-> NoInt, expires_at |-> NoInt, error |-> NoStr]

\* the dict rebound to the refresh response instead of updated in place
DictUpdate_Replace(old, new) == new

\* dict.update(new): every key present in new replaces the key of old
DictUpdate(old, new) ==
  [access_token  |-> IF new.access_token # NoStr THEN new.access_token ELSE old.access_token,
   refresh_token |-> IF new.refresh_token # NoStr THEN new.refresh_token ELSE old.refresh_token,
   token_type    |-> IF new.token_type # NoStr THEN new.token_type ELSE old.token_type,
   expires_in    |-> IF new.expires_in # NoInt THEN new.expires_in ELSE old.expires_in,
   expires_at    |-> IF new.expires_at # NoInt THEN new.expires_at ELSE old.expires_at,
   error         |-> IF new.error # NoStr THEN new.error ELSE old.error]

(***************************************************************************)
(* What the provider may answer to a POST on the token endpoint.           *)
(***************************************************************************)
NoResp == [kind |-> "none", body |-> NoDict]
TransportFailure == [kind |-> "transport_error", body |-> NoDict]
NotJson == [kind |-> "not_json", body |-> NoDict]
JsonResp(d) == [kind |-> "json", body |-> d]

\* access token only: the provider did not rotate the refresh token
AccessOnly ==
  JsonResp([NoDict EXCEPT !.access_token = "A2", !.token_type = "Bearer",
                          !.expires_in = 3600])
\* full token, with an expires_at of the provider's own on the wire
FullToken ==
  JsonResp([NoDict EXCEPT !.access_token = "A3", !.refresh_token = "R3",
                          !.token_type = "Bearer", !.expires_in = 3601,
                          !.expires_at = 1])
\* a lifetime but no access token
NoAccessToken ==
  JsonResp([NoDict EXCEPT !.token_type = "Bearer", !.expires_in = 3600])
\* an OAuth error payload
ErrorResp(e) == JsonResp([NoDict EXCEPT !.error = e])

\* answers to a refresh request
RefreshResponses ==
  {AccessOnly, FullToken, NoAccessToken, ErrorResp("invalid_grant"),
   TransportFailure, NotJson}

\* answers to a request made by get_token_from_code or refresh_token
TokenResponses ==
  RefreshResponses \cup
    {ErrorResp("authorization_pending"), ErrorResp("expired_token")}

(***************************************************************************)
(* The device-code endpoint's answers.                                     *)
(***************************************************************************)
NoCode ==
  [kind |-> "none", device_code |-> NoStr, user_code |-> NoStr,
   verification_url |-> NoStr]
CodeResponses ==
  { [kind |-> "json", device_code |-> "D1", user_code |-> "U1",
     verification_url |-> "https://example.com/device"],
    [NoCode EXCEPT !.kind = "transport_error"] }

(***************************************************************************)
(* File paths, by their length; NonePath is Python's None.                 *)
(***************************************************************************)
NonePath == 0 - 1
PathChoices == {NonePath, 0, MaxPathLen, MaxPathLen + 1}
\* filepaths handed to dump_token when it is called on its own
DumpPaths == PathChoices \cup {1}
\* filepaths the application passes to load_headers and setup
Locations == {NonePath, MaxPathLen}
Files == DumpPaths \ {NonePath}
NoFile == [state |-> "absent", data |-> NoDict]

VARIABLES
  clock,      \* time.time(), in ticks of 1/Res second
  token,      \* the token dict the load_headers calls share
  location,   \* the filepath the application passes
  store,      \* the file system: Files -> file contents
  wire,       \* requests POSTed so far
  pc,         \* load_headers call -> "idle" | "awaiting" | "done" | "raised"
  chkNow,     \* clock read by the call on line 96
  chkExp,     \* token["expires_at"] read by the call on line 96
  resp,       \* response the call's refresh request received
  recvAt,     \* int(time.time()) when that response was parsed
  hdr,        \* headers the call returned
  wrote,      \* the call opened the token file for writing
  xPc,        \* direct provider call: "idle" | "awaiting" | "done" | "raised"
  xKind,      \* "get_token_from_code" | "refresh_token"
  xSentAt,    \* int(time.time()) when its request was sent
  xResp,      \* response it received
  xRecvAt,    \* int(time.time()) when that response was parsed
  xRet,       \* the dict it returned
  xErr,       \* the exception it raised
  dPc,        \* direct dump_token call: "idle" | "returned"
  dPath,      \* its filepath argument
  dTok,       \* its token argument
  sPc,        \* setup: "START" | "CODE_REQUESTED" | "AWAITING_USER" |
              \*        "EXCHANGED" | "ABORTED"
  sCodeResp,  \* response to setup's device-code request
  sCode,      \* value of `code` in setup
  sUrl,       \* URL shown by input() on line 88
  sRet,       \* value setup returned
  sErr        \* exception setup raised

lhVars == <<pc, chkNow, chkExp, resp, recvAt, hdr, wrote>>
xVars == <<xPc, xKind, xSentAt, xResp, xRecvAt, xRet, xErr>>
dVars == <<dPc, dPath, dTok>>
sVars == <<sPc, sCodeResp, sCode, sUrl, sRet, sErr>>
vars == <<clock, token, location, store, wire, lhVars, xVars, dVars, sVars>>

IntTime == clock \div Res             \* int(time.time())

(***************************************************************************)
(* _send_request: adds the client id and the User-Agent and POSTs.         *)
(***************************************************************************)
NoData ==
  [client_id |-> NoStr, client_secret |-> NoStr, grant_type |-> NoStr,
   code |-> NoStr, refresh_token |-> NoStr, scope |-> NoStr]
\* the form body sent as given, without the client id
SendRequest_NoClientId(by, url, data) ==
  [by |-> by, url |-> url, data |-> data,
   user_agent |-> OAUTH_USER_AGENT, authorization |-> NoStr]

SendRequest(by, url, data) ==
  [by |-> by, url |-> url,
   data |-> [data EXCEPT !.client_id = OAUTH_CLIENT_ID],
   user_agent |-> OAUTH_USER_AGENT, authorization |-> NoStr]

\* refresh_token(refresh_token): the request it sends
RefreshRequest(by, rt) ==
  SendRequest(by, OAUTH_TOKEN_URL,
              [NoData EXCEPT !.client_secret = OAUTH_CLIENT_SECRET,
                             !.grant_type = GRANT_REFRESH,
                             !.refresh_token = rt])

(***************************************************************************)
(* _parse_token: await response.json(), then stamp expires_at.             *)
(***************************************************************************)
Raise(e) == [raised |-> TRUE, err |-> e, token |-> NoDict]
Return(d) == [raised |-> FALSE, err |-> NoStr, token |-> d]

\* a missing expires_in read as a zero lifetime instead of a KeyError
ParseToken_Lenient(r, now) ==
  IF r.kind = "not_json" THEN Raise("JSONDecodeError")
  ELSE IF r.body.expires_in = NoInt THEN Return([r.body EXCEPT !.expires_at = now])
  ELSE Return([r.body EXCEPT !.expires_at = now + r.body.expires_in])

\* an expires_at found in the response kept instead of recomputed
ParseToken_TrustWire(r, now) ==
  IF r.kind = "not_json" THEN Raise("JSONDecodeError")
  ELSE IF r.body.expires_in = NoInt THEN Raise("KeyError")
  ELSE IF r.body.expires_at # NoInt THEN Return(r.body)
  ELSE Return([r.body EXCEPT !.expires_at = now + r.body.expires_in])

ParseToken(r, now) ==
  IF r.kind = "not_json" THEN Raise("JSONDecodeError")
  ELSE IF r.body.expires_in = NoInt THEN Raise("KeyError")
  ELSE Return([r.body EXCEPT !.expires_at = now + r.body.expires_in])

\* refresh_token / get_token_from_code: the result once the POST has completed
RefreshResult(r, now) ==
  IF r.kind = "transport_error" THEN Raise("ClientError")
  ELSE ParseToken(r, now)

(***************************************************************************)
(* dump_token                                                              *)
(***************************************************************************)
\* the length test of line 78 off by one
DumpWrites_OffByOne(filepath) ==
  ~(filepath = NonePath \/ filepath = 0 \/ filepath >= MaxPathLen)

DumpWrites(filepath) ==
  ~(filepath = NonePath \/ filepath = 0 \/ filepath > MaxPathLen)

\* the token serialised without the derived expires_at
DumpToken_NoExpiry(tok, filepath, st) ==
  IF DumpWrites(filepath)
  THEN [st EXCEPT ![filepath] =
          [state |-> "json", data |-> [tok EXCEPT !.expires_at = NoInt]]]
  ELSE st

DumpToken(tok, filepath, st) ==
  IF DumpWrites(filepath)
  THEN [st EXCEPT ![filepath] = [state |-> "json", data |-> tok]]
  ELSE st

\* dump_token called on its own: it returns None, whatever the filepath
DumpTokenCall(tok, filepath) ==
  /\ dPc = "idle"
  /\ dPc' = "returned"
  /\ dPath' = filepath
  /\ dTok' = tok
  /\ store' = DumpToken(tok, filepath, store)
  /\ UNCHANGED <<clock, token, location, wire, lhVars, xVars, sVars>>

(***************************************************************************)
(* load_headers                                                            *)
(***************************************************************************)
NoHeaders ==
  [Authorization |-> NoStr, ContentType |-> NoStr, RequestTime |-> NoInt]

\* the comparison of line 96 turned round
NeedsRefresh_Inverted(now, tok) == now < (tok.expires_at - SKEW_WINDOW) * Res

NeedsRefresh(now, tok) == now > (tok.expires_at - SKEW_WINDOW) * Res

\* the Authorization value without the token type
BuildHeaders_NoType(tok, now) ==
  [Authorization |-> tok.access_token,
   ContentType |-> "application/json",
   RequestTime |-> now]

BuildHeaders(tok, now) ==
  [Authorization |-> tok.token_type \o " " \o tok.access_token,
   ContentType |-> "application/json",
   RequestTime |-> now]

\* the time of line 96 kept and reused for the header
HeaderTime_AtCheck(c) == chkNow[c] \div Res

\* line 101: int(time.time()), read when call c builds its headers
HeaderTime(c) == IntTime

\* dump_token moved out of the `if` of line 96
LoadHeadersCall_AlwaysDump(c) ==
  /\ pc[c] = "idle"
  /\ chkNow' = [chkNow EXCEPT ![c] = clock]
  /\ chkExp' = [chkExp EXCEPT ![c] = token.expires_at]
  /\ IF NeedsRefresh(clock, token)
     THEN /\ wire' = wire \cup {RefreshRequest(<<"load_headers", c>>, token.refresh_token)}
          /\ pc' = [pc EXCEPT ![c] = "awaiting"]
          /\ UNCHANGED <<hdr, store, wrote>>
     ELSE /\ store' = DumpToken(token, location, store)
          /\ wrote' = [wrote EXCEPT ![c] = DumpWrites(location)]
          /\ hdr' = [hdr EXCEPT ![c] = BuildHeaders(token, IntTime)]
          /\ pc' = [pc EXCEPT ![c] = "done"]
          /\ wire' = wire
  /\ UNCHANGED <<clock, token, location, resp, recvAt>>
  /\ UNCHANGED <<xVars, dVars, sVars>>

\* lines 94-97, up to the await of refresh_token
LoadHeadersCall(c) ==
  /\ pc[c] = "idle"
  /\ chkNow' = [chkNow EXCEPT ![c] = clock]
  /\ chkExp' = [chkExp EXCEPT ![c] = token.expires_at]
  /\ IF NeedsRefresh(clock, token)
     THEN /\ wire' = wire \cup {RefreshRequest(<<"load_headers", c>>, token.refresh_token)}
          /\ pc' = [pc EXCEPT ![c] = "awaiting"]
          /\ hdr' = hdr
     ELSE /\ hdr' = [hdr EXCEPT ![c] = BuildHeaders(token, HeaderTime(c))]
          /\ pc' = [pc EXCEPT ![c] = "done"]
          /\ wire' = wire
  /\ UNCHANGED <<clock, token, location, store, resp, recvAt, wrote>>
  /\ UNCHANGED <<xVars, dVars, sVars>>

\* the response body merged into the dict before _parse_token has accepted it
LoadHeadersResume_UpdateFirst(c, r) ==
  /\ pc[c] = "awaiting"
  /\ resp' = [resp EXCEPT ![c] = r]
  /\ recvAt' = [recvAt EXCEPT ![c] = IntTime]
  /\ LET res == RefreshResult(r, IntTime)
         merged == DictUpdate(DictUpdate(token, r.body), res.token)
     IN IF res.raised
        THEN /\ pc' = [pc EXCEPT ![c] = "raised"]
             /\ token' = merged
             /\ UNCHANGED <<store, hdr, wrote>>
        ELSE /\ token' = merged
             /\ store' = DumpToken(merged, location, store)
             /\ wrote' = [wrote EXCEPT ![c] = DumpWrites(location)]
             /\ hdr' = [hdr EXCEPT ![c] = BuildHeaders(merged, IntTime)]
             /\ pc' = [pc EXCEPT ![c] = "done"]
  /\ UNCHANGED <<clock, location, wire, chkNow, chkExp>>
  /\ UNCHANGED <<xVars, dVars, sVars>>

\* lines 97-102, from the completion of the refresh request
LoadHeadersResume(c, r) ==
  /\ pc[c] = "awaiting"
  /\ resp' = [resp EXCEPT ![c] = r]
  /\ recvAt' = [recvAt EXCEPT ![c] = IntTime]
  /\ LET res == RefreshResult(r, IntTime)
         merged == DictUpdate(token, res.token)
     IN IF res.raised
        THEN /\ pc' = [pc EXCEPT ![c] = "raised"]
             /\ UNCHANGED <<token, store, hdr, wrote>>
        ELSE /\ token' = merged
             /\ store' = DumpToken(merged, location, store)
             /\ wrote' = [wrote EXCEPT ![c] = DumpWrites(location)]
             /\ hdr' = [hdr EXCEPT ![c] = BuildHeaders(merged, HeaderTime(c))]
             /\ pc' = [pc EXCEPT ![c] = "done"]
  /\ UNCHANGED <<clock, location, wire, chkNow, chkExp>>
  /\ UNCHANGED <<xVars, dVars, sVars>>

(***************************************************************************)
(* get_token_from_code and refresh_token, called on their own.  Both end   *)
(* in `return await self._parse_token(response)`.                          *)
(***************************************************************************)
ExchangeRequest(by, device_code) ==
  SendRequest(by, OAUTH_TOKEN_URL,
              [NoData EXCEPT !.client_secret = OAUTH_CLIENT_SECRET,
                             !.grant_type = GRANT_DEVICE,
                             !.code = device_code])

\* get_token_from_code, up to the await of _send_request
GetTokenFromCodeCall(device_code) ==
  /\ xPc = "idle"
  /\ xPc' = "awaiting"
  /\ xKind' = "get_token_from_code"
  /\ xSentAt' = IntTime
  /\ wire' = wire \cup {ExchangeRequest(<<"get_token_from_code", 0>>, device_code)}
  /\ UNCHANGED <<clock, token, location, store, lhVars, xResp, xRecvAt, xRet,
                 xErr, dVars, sVars>>

\* refresh_token, up to the await of _send_request
RefreshTokenCall(rt) ==
  /\ xPc = "idle"
  /\ xPc' = "awaiting"
  /\ xKind' = "refresh_token"
  /\ xSentAt' = IntTime
  /\ wire' = wire \cup {RefreshRequest(<<"refresh_token", 0>>, rt)}
  /\ UNCHANGED <<clock, token, location, store, lhVars, xResp, xRecvAt, xRet,
                 xErr, dVars, sVars>>

\* either of them, from the completion of the POST
TokenCallResume(r) ==
  /\ xPc = "awaiting"
  /\ xResp' = r
  /\ xRecvAt' = IntTime
  /\ LET res == RefreshResult(r, IntTime)
     IN IF res.raised
        THEN xPc' = "raised" /\ xErr' = res.err /\ xRet' = xRet
        ELSE xPc' = "done" /\ xErr' = xErr /\ xRet' = res.token
  /\ UNCHANGED <<clock, token, location, store, wire, lhVars, xKind, xSentAt,
                 dVars, sVars>>

(***************************************************************************)
(* get_code and setup.                                                     *)
(*                                                                         *)
(* get_code does not await code_response.json(): what it returns, and what *)
(* setup binds to `code`, is the coroutine object of that call.  Line 85   *)
(* subscripts it.  setup does not await get_token_from_code either: line   *)
(* 89 binds `token` to a coroutine object and sends nothing.               *)
(***************************************************************************)
NoValue == [kind |-> "none", code |-> NoCode, tok |-> NoDict]
Coroutine == [kind |-> "coroutine", code |-> NoCode, tok |-> NoDict]
CodeDict(d) == [kind |-> "dict", code |-> d, tok |-> NoDict]

\* get_code: its result once the POST has completed
GetCode(r) ==
  IF r.kind = "transport_error"
  THEN [raised |-> TRUE, err |-> "ClientError", val |-> NoValue]
  ELSE [raised |-> FALSE, err |-> NoStr, val |-> Coroutine]

PresentedUrl(code) ==
  code.code.verification_url \o "?user_code=" \o code.code.user_code

\* line 84, up to the await of get_code
SetupCall ==
  /\ sPc = "START"
  /\ sPc' = "CODE_REQUESTED"
  /\ wire' = wire \cup
       {SendRequest(<<"setup", 0>>, OAUTH_CODE_URL, [NoData EXCEPT !.scope = OAUTH_SCOPE])}
  /\ UNCHANGED <<clock, token, location, store, lhVars, xVars, dVars,
                 sCodeResp, sCode, sUrl, sRet, sErr>>

\* lines 84-88, from the completion of the device-code request to input()
SetupCodeResponse(r) ==
  /\ sPc = "CODE_REQUESTED"
  /\ sCodeResp' = r
  /\ LET got == GetCode(r)
     IN IF got.raised
        THEN sPc' = "ABORTED" /\ sErr' = got.err /\ UNCHANGED <<sCode, sUrl>>
        ELSE /\ sCode' = got.val
             /\ IF got.val.kind = "dict"
                THEN sPc' = "AWAITING_USER" /\ sUrl' = PresentedUrl(got.val)
                     /\ sErr' = sErr
                ELSE sPc' = "ABORTED" /\ sErr' = "TypeError" /\ sUrl' = sUrl
  /\ UNCHANGED <<clock, token, location, store, wire, lhVars, xVars, dVars,
                 sRet>>

\* lines 88-92, from the return of input().  No behaviour takes this step:
\* SetupCodeResponse never leaves setup at input().
SetupConfirm ==
  /\ sPc = "AWAITING_USER"
  /\ IF DumpWrites(location)
     THEN /\ store' = [store EXCEPT ![location] = [state |-> "empty", data |-> NoDict]]
          /\ sPc' = "ABORTED" /\ sErr' = "TypeError" /\ sRet' = sRet
     ELSE /\ sPc' = "EXCHANGED" /\ sRet' = Coroutine
          /\ UNCHANGED <<store, sErr>>
  /\ UNCHANGED <<clock, token, location, wire, lhVars, xVars, dVars,
                 sCodeResp, sCode, sUrl>>

Tick ==
  /\ clock < MaxClock
  /\ clock' = clock + 1
  /\ UNCHANGED <<token, location, store, wire, lhVars, xVars, dVars, sVars>>

InitialTokens ==
  { [access_token |-> "A1", refresh_token |-> "R1", token_type |-> "Bearer",
     expires_in |-> 3600, expires_at |-> e, error |-> NoStr] :
    e \in { 1000 + SKEW_WINDOW - 1, 1000 + SKEW_WINDOW, 1000 + SKEW_WINDOW + 1 } }

Init ==
  /\ clock = StartTime
  /\ token \in InitialTokens
  /\ location \in Locations
  /\ store = [f \in Files |-> NoFile]
  /\ wire = {}
  /\ pc = [c \in Calls |-> "idle"]
  /\ chkNow = [c \in Calls |-> NoInt]
  /\ chkExp = [c \in Calls |-> NoInt]
  /\ resp = [c \in Calls |-> NoResp]
  /\ recvAt = [c \in Calls |-> NoInt]
  /\ hdr = [c \in Calls |-> NoHeaders]
  /\ wrote = [c \in Calls |-> FALSE]
  /\ xPc = "idle"
  /\ xKind = NoStr
  /\ xSentAt = NoInt
  /\ xResp = NoResp
  /\ xRecvAt = NoInt
  /\ xRet = NoDict
  /\ xErr = NoStr
  /\ dPc = "idle"
  /\ dPath = NonePath
  /\ dTok = NoDict
  /\ sPc = "START"
  /\ sCodeResp = NoCode
  /\ sCode = NoValue
  /\ sUrl = NoStr
  /\ sRet = NoValue
  /\ sErr = NoStr

DeviceCodes == {"D1"}

\* Header construction: concurrent load_headers calls on one token dict.
Next ==
  \/ Tick
  \/ \E c \in Calls : LoadHeadersCall(c)
  \/ \E c \in Calls, r \in RefreshResponses : LoadHeadersResume(c, r)

\* Token acquisition and storage: setup, and get_token_from_code,
\* refresh_token and dump_token called on their own.
FlowNext ==
  \/ Tick
  \/ \E d \in DeviceCodes : GetTokenFromCodeCall(d)
  \/ RefreshTokenCall(token.refresh_token)
  \/ \E r \in TokenResponses : TokenCallResume(r)
  \/ \E t \in {token, xRet}, f \in DumpPaths : DumpTokenCall(t, f)
  \/ SetupCall
  \/ \E r \in CodeResponses : SetupCodeResponse(r)

Spec == Init /\ [][Next]_vars
FlowSpec == Init /\ [][FlowNext]_vars
(***************************************************************************)
(* Properties of load_headers (specification Spec).                        *)
(***************************************************************************)
RefreshesBy(c) ==
  {q \in wire : q.by = <<"load_headers", c>> /\ q.data.grant_type = GRANT_REFRESH}

\* the check of line 96 found the clock at or past expires_at - 3600
AtOrInsideWindow(c) ==
  /\ pc[c] # "idle"
  /\ chkNow[c] >= (chkExp[c] - SKEW_WINDOW) * Res

\* the check of line 96 found the clock before expires_at - 3600
OutsideWindow(c) ==
  /\ pc[c] # "idle"
  /\ chkNow[c] < (chkExp[c] - SKEW_WINDOW) * Res

\* C1: a load_headers call that finds now >= expires_at - 3600, the instant
\* now == expires_at - 3600 included, sends exactly one refresh request, and
\* the headers it returns carry the access token of the refresh response.
C1_RefreshAtOrInsideWindow ==
  \A c \in Calls :
    AtOrInsideWindow(c) =>
      /\ Cardinality(RefreshesBy(c)) = 1
      /\ pc[c] = "done" =>
           hdr[c].Authorization =
             token.token_type \o " " \o resp[c].body.access_token

\* a response _parse_token turns into a token with which load_headers can
\* authenticate
UsableToken(r) ==
  /\ r.kind = "json"
  /\ r.body.access_token # NoStr
  /\ r.body.expires_in # NoInt

\* C2: when the refresh of a load_headers call fails (transport error, or a
\* response that is not a usable token) the call raises and returns no
\* headers, in particular none carrying the old access token.
C2_RefreshFailureAborts ==
  \A c \in Calls :
    (resp[c] # NoResp /\ ~UsableToken(resp[c])) =>
      /\ pc[c] = "raised"
      /\ hdr[c] = NoHeaders

\* C3: refresh requests of load_headers calls sharing one token dict are
\* serialized: no two of them are in flight at once.
C3_RefreshSerialized ==
  \A c1, c2 \in Calls :
    (pc[c1] = "awaiting" /\ pc[c2] = "awaiting") => c1 = c2

\* C4: the merge of a refresh response into the token dict keeps the old
\* refresh_token when the response has none and takes the response's when it
\* has one; it takes the response's access_token and sets expires_at to the
\* time of parsing plus expires_in.
C4_MergeStep ==
  \A c \in Calls :
    (pc[c] = "awaiting" /\ pc'[c] = "done") =>
      LET b == resp'[c].body
      IN /\ token'.refresh_token =
              (IF b.refresh_token = NoStr THEN token.refresh_token
               ELSE b.refresh_token)
         /\ token'.access_token =
              (IF b.access_token = NoStr THEN token.access_token
               ELSE b.access_token)
         /\ token'.expires_at = (clock \div Res) + b.expires_in
C4_MergeKeepsRefreshToken == [][C4_MergeStep]_vars

\* refresh at now = 1000 answered {access_token: A2, expires_in: 3600,
\* token_type: Bearer} on a dict with refresh_token R1
C4_Witness ==
  \E c \in Calls :
    /\ pc[c] = "done"
    /\ recvAt[c] = 1000
    /\ resp[c].body.access_token = "A2"
    /\ resp[c].body.refresh_token = NoStr
    /\ resp[c].body.expires_in = 3600
    /\ token.access_token = "A2"
    /\ token.refresh_token = "R1"
    /\ token.expires_at = 4600

\* C5: a load_headers call that finds now < expires_at - 3600 sends no
\* request to the token endpoint and returns headers.
C5_NoRefreshOutsideWindow ==
  \A c \in Calls :
    OutsideWindow(c) =>
      /\ {q \in wire : q.by = <<"load_headers", c>>} = {}
      /\ resp[c] = NoResp
      /\ pc[c] = "done"

C5_Witness ==
  \E c \in Calls :
    /\ OutsideWindow(c)
    /\ pc[c] = "done"
    /\ hdr[c] # NoHeaders

\* the refresh_token call raises on this response
RefreshRaises(r) ==
  \/ r.kind \in {"transport_error", "not_json"}
  \/ r.body.expires_in = NoInt

C7_ExpiresAtFromReceipt ==
  xPc = "done" =>
    /\ xRet.expires_in = xResp.body.expires_in
    /\ xRet.expires_at = xRecvAt + xRet.expires_in
    /\ xRecvAt <= IntTime

\* a response with an expires_at of its own, parsed a second after the
\* request was sent, the clock having moved on since
C7_Witness ==
  /\ xPc = "done"
  /\ xKind = "refresh_token"
  /\ xResp.body.expires_at # NoInt
  /\ xSentAt < xRecvAt
  /\ xRecvAt * Res < clock

SetupEnded == sPc \in {"EXCHANGED", "ABORTED"}

ExchangesBySetup ==
  {q \in wire : q.by = <<"setup", 0>> /\ q.data.grant_type = GRANT_DEVICE}

\* C8: a setup run whose device-code request the provider answered ends by
\* returning the token record (access_token, refresh_token, computed
\* expires_at), and the token file, when the location is one dump_token
\* writes, holds that record.
C8_SetupReturnsRecord ==
  (SetupEnded /\ sCodeResp.kind = "json") =>
    /\ sPc = "EXCHANGED"
    /\ sRet.kind = "dict"
    /\ sRet.tok.access_token # NoStr
    /\ sRet.tok.refresh_token # NoStr
    /\ sRet.tok.expires_at # NoInt
    /\ DumpWrites(location) =>
         store[location] = [state |-> "json", data |-> sRet.tok]

\* C9: setup moves START -> CODE_REQUESTED -> AWAITING_USER -> EXCHANGED |
\* ABORTED: a failed device-code request aborts it with no exchange request
\* sent; once the device-code response has arrived the user has been shown
\* verification_url + "?user_code=" + user_code; no exchange request is sent
\* while setup has not passed the confirmation.
C9_DeviceFlowOrder ==
  /\ sCodeResp.kind = "transport_error" =>
       (sPc = "ABORTED" /\ ExchangesBySetup = {})
  /\ sCodeResp.kind = "json" =>
       sUrl = sCodeResp.verification_url \o "?user_code=" \o sCodeResp.user_code
  /\ sPc \in {"START", "CODE_REQUESTED", "AWAITING_USER"} =>
       ExchangesBySetup = {}

\* C10: a setup run that got its device code ends having sent the exchange
\* request exactly once.
C10_ExchangeOnce ==
  (SetupEnded /\ sCodeResp.kind = "json") =>
    Cardinality(ExchangesBySetup) = 1

\* C11: get_token_from_code on a response carrying the error
\* "authorization_pending" raises PendingError, an error that is neither the
\* one raised for other malformed responses nor the one for an expired
\* device code, and returns no token.
C11_PendingErrorSurfaced ==
  (xKind = "get_token_from_code" /\ xResp = ErrorResp("authorization_pending")) =>
    /\ xPc = "raised"
    /\ xErr = "PendingError"
    /\ xRet = NoDict

\* C12: dump_token with a filepath that is None, empty or longer than 255
\* characters returns without touching any file; with a filepath of 1 to 255
\* characters, 255 included, the file holds the whole token, expires_at
\* included.  Either way it returns normally.
C12_DumpTokenNoOpOrFull ==
  dPc = "returned" =>
    IF dPath # NonePath /\ dPath >= 1 /\ dPath <= 255
    THEN /\ store[dPath] = [state |-> "json", data |-> dTok]
         /\ store[dPath].data.expires_at = dTok.expires_at
         /\ \A f \in Files \ {dPath} : store[f] = NoFile
    ELSE \A f \in Files : store[f] = NoFile

\* a token with a stamped expires_at written to a path of 255 characters
C12_Witness ==
  /\ dPc = "returned"
  /\ dPath = 255
  /\ dTok.expires_at # NoInt
  /\ store[255].state = "json"
  /\ store[255].data.expires_at = dTok.expires_at

(***************************************************************************)
(* Further properties of load_headers (specification Spec).                *)
(***************************************************************************)
Refreshed(c) == pc[c] = "done" /\ resp[c] # NoResp

\* C13: with a filepath dump_token writes, once any load_headers call has
\* completed a refresh the token file holds the token dict as it is in
\* memory (new access token, new expires_at, refresh token carried forward),
\* under every interleaving of the calls; so it does when all have returned.
C13_StoreEqualsMemory ==
  (DumpWrites(location) /\ \E c \in Calls : Refreshed(c)) =>
    /\ store[location] = [state |-> "json", data |-> token]
    /\ store[location].data.refresh_token # NoStr
    /\ store[location].data.expires_at # NoInt

\* every call has returned after a refresh of its own
C13_Witness ==
  /\ DumpWrites(location)
  /\ \A c \in Calls : Refreshed(c)
  /\ \E c1, c2 \in Calls : resp[c1] # resp[c2]
  /\ store[location].data = token

\* C14 as claimed: the request-time header is the instant read for the
\* expiry decision of line 96, also after a refresh.
C14_TimestampIsDecisionInstant ==
  \A c \in Calls :
    pc[c] = "done" => hdr[c].RequestTime = chkNow[c] \div Res

\* C14 as amended: the request-time header is int(time.time()) read when the
\* headers are built, at the end of the call and after any refresh; it is
\* never earlier than the instant of the expiry decision.
C14_ReturnStep ==
  \A c \in Calls :
    (pc[c] # "done" /\ pc'[c] = "done") =>
      /\ hdr'[c].RequestTime = clock' \div Res
      /\ hdr'[c].RequestTime >= chkNow'[c] \div Res
C14_TimestampReadAtReturn == [][C14_ReturnStep]_vars

\* headers returned after a refresh during which a second went by
C14_Witness ==
  \E c \in Calls :
    /\ Refreshed(c)
    /\ hdr[c].RequestTime > chkNow[c] \div Res

\* C16: a load_headers call whose refresh raises leaves the token dict and
\* the token file as they were: neither the step that sends the refresh
\* request nor the step in which the refresh raises changes them.
C16_FailStep ==
  \A c \in Calls :
    (pc'[c] # pc[c] /\ pc'[c] \in {"awaiting", "raised"}) =>
      /\ token' = token
      /\ store' = store
      /\ wrote'[c] = FALSE
C16_FailedRefreshChangesNothing == [][C16_FailStep]_vars

\* a refresh answered by an OAuth error payload has raised
C16_Witness ==
  \E c \in Calls :
    /\ pc[c] = "raised"
    /\ resp[c] = ErrorResp("invalid_grant")
    /\ token \in InitialTokens
    /\ \A f \in Files : store[f] = NoFile

\* C17: a load_headers call made while time < expires_at - 3600 returns
\* without changing any key of the token dict and without writing the token
\* file, whatever the filepath.
C17_ValidStep ==
  \A c \in Calls :
    (pc[c] = "idle" /\ pc'[c] # "idle"
       /\ clock < (token.expires_at - 3600) * Res) =>
      /\ pc'[c] = "done"
      /\ token' = token
      /\ store' = store
      /\ wrote'[c] = FALSE
C17_ValidCallChangesNothing == [][C17_ValidStep]_vars

\* such a call has returned, with a filepath dump_token would write
C17_Witness ==
  \E c \in Calls :
    /\ OutsideWindow(c)
    /\ pc[c] = "done"
    /\ DumpWrites(location)
    /\ store[location] = NoFile
    /\ token.access_token = "A1"

\* C18: the Authorization value of the headers a load_headers call returns
\* is token_type, a space and access_token of the token dict as it is when
\* the call returns, under every interleaving of the calls.
C18_ReturnStep ==
  \A c \in Calls :
    (pc[c] # "done" /\ pc'[c] = "done") =>
      hdr'[c].Authorization = token'.token_type \o " " \o token'.access_token
C18_AuthorizationFromCurrentToken == [][C18_ReturnStep]_vars

\* two calls whose refreshes overlapped returned different access tokens
C18_Witness ==
  \E c1, c2 \in Calls :
    /\ Refreshed(c1) /\ Refreshed(c2)
    /\ chkNow[c1] \div Res <= recvAt[c2] /\ chkNow[c2] \div Res <= recvAt[c1]
    /\ hdr[c1].Authorization = "Bearer A2"
    /\ hdr[c2].Authorization = "Bearer A3"

(***************************************************************************)
(* The requests on the wire (specification FlowSpec).                      *)
(***************************************************************************)
RequestHeadersOk(q) ==
  /\ q.user_agent = OAUTH_USER_AGENT
  /\ q.authorization = NoStr
  /\ q.data.client_id = OAUTH_CLIENT_ID

ExchangeBody(q, grant) ==
  q.data = [client_id |-> OAUTH_CLIENT_ID, client_secret |-> OAUTH_CLIENT_SECRET,
            grant_type |-> grant, code |-> "D1",
            refresh_token |-> NoStr, scope |-> NoStr]

RefreshBody(q) ==
  q.data = [client_id |-> OAUTH_CLIENT_ID, client_secret |-> OAUTH_CLIENT_SECRET,
            grant_type |-> "refresh_token", code |-> NoStr,
            refresh_token |-> token.refresh_token, scope |-> NoStr]

\* C15 as claimed: every request carries the User-Agent and the client id
\* and no Authorization header; the exchange request's body is {client_id,
\* client_secret, grant_type:
\* "urn:ietf:params:oauth:grant-type:device_code", code}, the refresh
\* request's {client_id, client_secret, grant_type: "refresh_token",
\* refresh_token}.
C15_RequestsAsSpecified ==
  \A q \in wire :
    /\ RequestHeadersOk(q)
    /\ q.by[1] = "get_token_from_code" =>
         ExchangeBody(q, "urn:ietf:params:oauth:grant-type:device_code")
    /\ q.by[1] = "refresh_token" => RefreshBody(q)

\* C15 as amended: the same, the exchange request's grant_type being
\* "http://oauth.net/grant_type/device/1.0".
C15_RequestsAsSent ==
  \A q \in wire :
    /\ RequestHeadersOk(q)
    /\ q.by[1] = "get_token_from_code" =>
         ExchangeBody(q, "http://oauth.net/grant_type/device/1.0")
    /\ q.by[1] = "refresh_token" => RefreshBody(q)

\* a device-code request and an exchange request have been sent
C15_Witness ==
  /\ \E q \in wire : q.by[1] = "setup" /\ q.url = OAUTH_CODE_URL
  /\ \E q \in wire : q.by[1] = "get_token_from_code" /\ q.url = OAUTH_TOKEN_URL
====
